---- MODULE Spec2Model ----
(***************************************************************************)
(* Verification model of the folco command line front end (src/main.rs):    *)
(* source resolution for decals and overlays, profile construction in      *)
(* main, and the progress pipeline of customize_folders / reset_folders.   *)
(* Strings are sequences of Unicode codepoints.                            *)
(***************************************************************************)
EXTENDS Integers, Sequences, FiniteSets, TLC

VARIABLES
    input, overlayResult, decalResult,   \* resolver harness: argument and results
    fs,                                  \* file system: path -> entry
    args,                                \* the command line as given
    mainPc, mainErr, profile,            \* main: position, error returned, profile built
    mode, nDirs, ctxOk, renderOk, failing, \* batch: kind, directories, environment outcomes
    fnPc,                                \* customize_folders / reset_folders position
    chanCreated, chan, senderAlive,      \* progress channel: buffer and sender handle
    consumerPc, pb,                      \* spawned progress handler and its progress bar
    prodPc, dirIdx, succeeded, failed,   \* producer inside folco_core
    sent, handled                        \* history: events sent, events handled

resolveVars == <<input, fs, overlayResult, decalResult>>
mainVars == <<args, mainPc, mainErr, profile>>
envVars == <<mode, nDirs, ctxOk, renderOk, failing>>
batchVars == <<fnPc, chanCreated, chan, senderAlive, consumerPc, pb,
               prodPc, dirIdx, succeeded, failed, sent, handled>>
vars == <<resolveVars, mainVars, envVars, batchVars>>

(* ------------------------------ bounds -------------------------------- *)
MaxLen == 3
MaxDirs == 16
MaxFailing == 1
MaxMainDirs == 1

(* ----------------------------- strings -------------------------------- *)
\* Unicode White_Space, the set str::trim strips.
IsWhitespace(c) ==
    \/ c \in {9, 10, 11, 12, 13, 32, 133, 160, 5760, 8232, 8233, 8239, 8287, 12288}
    \/ c \in 8192..8202

RECURSIVE TrimStart(_)
TrimStart(s) ==
    IF s = <<>> THEN <<>>
    ELSE IF IsWhitespace(Head(s)) THEN TrimStart(Tail(s)) ELSE s

RECURSIVE TrimEnd(_)
TrimEnd(s) ==
    IF s = <<>> THEN <<>>
    ELSE IF IsWhitespace(s[Len(s)]) THEN TrimEnd(SubSeq(s, 1, Len(s) - 1)) ELSE s

Trim(s) == TrimEnd(TrimStart(s))

\* trimmed.starts_with('<')
StartsWithLt(s) == Len(s) > 0 /\ s[1] = 60

(* ------------------------------ paths --------------------------------- *)
\* Path::components on a '/'-separated path: the segments between
\* separators, with empty segments and "." segments dropped.
RECURSIVE Segments(_, _, _)
Segments(s, cur, acc) ==
    IF s = <<>>
    THEN IF cur = <<>> \/ cur = <<46>> THEN acc ELSE Append(acc, cur)
    ELSE IF Head(s) = 47
         THEN Segments(Tail(s), <<>>,
                       IF cur = <<>> \/ cur = <<46>> THEN acc ELSE Append(acc, cur))
         ELSE Segments(Tail(s), Append(cur, Head(s)), acc)

NoName == <<0>>

\* Path::file_name: the last normal component; none for "", "/", "." and
\* for a path that ends in "..".
FileName(p) ==
    LET segs == Segments(p, <<>>, <<>>)
    IN  IF segs = <<>> THEN NoName
        ELSE IF segs[Len(segs)] = <<46, 46>> THEN NoName
        ELSE segs[Len(segs)]

\* Index of the last '.' of a file name, 0 when it has none.
RECURSIVE LastDot(_, _)
LastDot(f, i) ==
    IF i = 0 THEN 0 ELSE IF f[i] = 46 THEN i ELSE LastDot(f, i - 1)

\* Path::extension: the part of the file name after its last '.', none when
\* there is no file name, no '.', or the only '.' is the first character.
Extension(p) ==
    LET f == FileName(p)
        d == LastDot(f, Len(f))
    IN  IF f = NoName THEN NoName
        ELSE IF d <= 1 THEN NoName
        ELSE SubSeq(f, d + 1, Len(f))

ToAsciiLower(c) == IF c \in 65..90 THEN c + 32 ELSE c

\* ext.eq_ignore_ascii_case("svg")
EqIgnoreAsciiCaseSvg(e) ==
    /\ Len(e) = 3
    /\ ToAsciiLower(e[1]) = 115
    /\ ToAsciiLower(e[2]) = 118
    /\ ToAsciiLower(e[3]) = 103

HasSvgExtension(p) ==
    LET e == Extension(p) IN e # NoName /\ EqIgnoreAsciiCaseSvg(e)

(* --------------------------- file system ------------------------------ *)
\* An entry is what Path::exists and fs::read_to_string report for one path.
Absent == [exists |-> FALSE, readable |-> FALSE, contents |-> <<>>]
Unreadable == [exists |-> TRUE, readable |-> FALSE, contents |-> <<>>]
File(c) == [exists |-> TRUE, readable |-> TRUE, contents |-> c]

Lookup(f, p) == IF p \in DOMAIN f THEN f[p] ELSE Absent

PathExists(f, p) == Lookup(f, p).exists

(* ------------------------------ results ------------------------------- *)
Ok(tag, text) == [ok |-> TRUE, tag |-> tag, text |-> text]
Err(kind) == [ok |-> FALSE, tag |-> kind, text |-> <<>>]
NoResult == [ok |-> FALSE, tag |-> "none", text |-> <<>>]

\* fs::read_to_string(path).with_context(..)?
ReadToString(f, p, errKind) ==
    IF Lookup(f, p).readable THEN Ok("String", Lookup(f, p).contents) ELSE Err(errKind)

\* SerializableSvgSource constructors: the three tags of the asset union.
from_svg(text) == Ok("Raw", text)
from_emoji(text) == Ok("EmojiChar", text)
from_emoji_name(text) == Ok("EmojiName", text)

(* ------------------------------ resolvers ----------------------------- *)
\* Mutation: the fallback accepts the input instead of bailing.
resolve_svg_source_accepting(in, f) ==
    LET trimmed == Trim(in)
    IN  IF StartsWithLt(trimmed) THEN Ok("String", trimmed)
        ELSE IF PathExists(f, trimmed) THEN
            LET r == ReadToString(f, trimmed, "ReadFailed")
            IN  IF r.ok THEN Ok("String", r.text) ELSE r
        ELSE Ok("String", trimmed)

resolve_svg_source(in, f) ==
    LET trimmed == Trim(in)
    IN  IF StartsWithLt(trimmed) THEN Ok("String", trimmed)
        ELSE IF PathExists(f, trimmed) THEN
            LET r == ReadToString(f, trimmed, "ReadFailed")
            IN  IF r.ok THEN Ok("String", r.text) ELSE r
        ELSE Err("NotFoundOrMarkup")

IsEmojiSignal(c) ==
    \/ c = 8205                  \* U+200D ZWJ
    \/ c = 65039                 \* U+FE0F variation selector
    \/ c = 8419                  \* U+20E3 combining enclosing keycap
    \/ c \in 9728..10175         \* U+2600..U+27BF
    \/ c \in 11088..11093        \* U+2B50..U+2B55
    \/ c \in 126976..129791      \* U+1F000..U+1FAFF

looks_like_emoji(s) == \E i \in 1..Len(s) : IsEmojiSignal(s[i])

\* Mutation: any existing path is read, whatever its extension.
resolve_overlay_source_any_file(in, f) ==
    LET trimmed == Trim(in)
    IN  IF StartsWithLt(trimmed) THEN from_svg(trimmed)
        ELSE IF PathExists(f, trimmed)
             THEN LET r == ReadToString(f, trimmed, "ReadFailed")
                  IN  IF r.ok THEN from_svg(r.text) ELSE r
        ELSE IF looks_like_emoji(trimmed) THEN from_emoji(trimmed)
        ELSE from_emoji_name(trimmed)

resolve_overlay_source(in, f) ==
    LET trimmed == Trim(in)
    IN  IF StartsWithLt(trimmed) THEN from_svg(trimmed)
        ELSE IF HasSvgExtension(trimmed) /\ PathExists(f, trimmed)
             THEN LET r == ReadToString(f, trimmed, "ReadFailed")
                  IN  IF r.ok THEN from_svg(r.text) ELSE r
        ELSE IF looks_like_emoji(trimmed) THEN from_emoji(trimmed)
        ELSE from_emoji_name(trimmed)

\* main's decal branch: resolve_svg_source(source)? wrapped by from_svg.
DecalSource(in, f) ==
    LET r == resolve_svg_source(in, f)
    IN  IF r.ok THEN from_svg(r.text) ELSE r

(* --------------------------- progress events -------------------------- *)
Event(kind, a, b) == [kind |-> kind, a |-> a, b |-> b]
Started(total) == Event("Started", total, 0)
Rendering == Event("Rendering", 0, 0)
RenderFailed == Event("RenderFailed", 0, 0)
Processing(dir) == Event("Processing", dir, 0)
FolderComplete(dir) == Event("FolderComplete", dir, 0)
FolderFailed(dir) == Event("FolderFailed", dir, 0)
Completed(ok, bad) == Event("Completed", ok, bad)

(* --------------------------- progress channel ------------------------- *)
Capacity == 32

\* Mutation: an unbounded channel.
CanSendUnbounded(buf) == TRUE

\* progress_channel(32): a send completes only while fewer than 32 events wait.
CanSend(buf) == Len(buf) < Capacity

\* Mutation: the newest buffered event is delivered first.
RecvNewest(buf) == buf[Len(buf)]

\* rx.recv().await yields the oldest buffered event.
RecvNext(buf) == Head(buf)

\* Mutation: an empty buffer ends the loop although the sender is alive.
RecvClosedOnEmpty(buf, alive) == buf = <<>>

\* rx.recv().await yields None: every sender dropped and nothing buffered.
RecvClosed(buf, alive) == buf = <<>> /\ ~alive

(* ----------------------------- progress bar --------------------------- *)
NoBar == [length |-> 0, pos |-> 0, message |-> "none"]

create_progress_bar(total) == [length |-> total, pos |-> 0, message |-> ""]

\* The match in the handler spawned by customize_folders.
HandleCustomize(bar, ev) ==
    CASE ev.kind = "Started" -> [bar EXCEPT !.length = ev.a, !.message = "Starting..."]
      [] ev.kind = "Rendering" -> [bar EXCEPT !.message = "Rendering icons..."]
      [] ev.kind = "RenderFailed" -> bar
      [] ev.kind = "Processing" -> [bar EXCEPT !.message = "Processing"]
      [] ev.kind = "FolderComplete" -> [bar EXCEPT !.pos = @ + 1]
      [] ev.kind = "FolderFailed" -> [bar EXCEPT !.pos = @ + 1]
      [] ev.kind = "Completed" -> [bar EXCEPT !.message = "Completed"]

\* The match in the handler spawned by reset_folders.
HandleReset(bar, ev) ==
    CASE ev.kind = "Started" -> [bar EXCEPT !.length = ev.a, !.message = "Starting..."]
      [] ev.kind = "Processing" -> [bar EXCEPT !.message = "Resetting"]
      [] ev.kind = "FolderComplete" -> [bar EXCEPT !.pos = @ + 1]
      [] ev.kind = "FolderFailed" -> [bar EXCEPT !.pos = @ + 1]
      [] ev.kind = "Completed" -> [bar EXCEPT !.message = "Completed"]
      [] OTHER -> bar

(* ------------------ customize_folders / reset_folders ----------------- *)
IdleBatch ==
    /\ fnPc = "idle"
    /\ chanCreated = FALSE
    /\ chan = <<>>
    /\ senderAlive = FALSE
    /\ consumerPc = "unspawned"
    /\ pb = NoBar
    /\ prodPc = "idle"
    /\ dirIdx = 1
    /\ succeeded = 0
    /\ failed = 0
    /\ sent = <<>>
    /\ handled = <<>>

\* CustomizationContextBuilder::new().build().context(..)?
BuildContext ==
    /\ fnPc = "entry"
    /\ fnPc' = IF ctxOk THEN "built" ELSE "ctx_failed"
    /\ UNCHANGED <<chanCreated, chan, senderAlive, consumerPc, pb,
                   prodPc, dirIdx, succeeded, failed, sent, handled>>
    /\ UNCHANGED <<resolveVars, mainVars, envVars>>

\* progress_channel(32) and create_progress_bar(total)
CreateChannel ==
    /\ fnPc = "built"
    /\ fnPc' = "channel"
    /\ chanCreated' = TRUE
    /\ chan' = <<>>
    /\ senderAlive' = TRUE
    /\ pb' = create_progress_bar(nDirs)
    /\ UNCHANGED <<consumerPc, prodPc, dirIdx, succeeded, failed, sent, handled>>
    /\ UNCHANGED <<resolveVars, mainVars, envVars>>

\* Mutation: the handler is never handed to the runtime.
SpawnProgressHandlerSkipped ==
    /\ fnPc = "channel"
    /\ fnPc' = "spawned"
    /\ UNCHANGED <<consumerPc, chanCreated, chan, senderAlive, pb,
                   prodPc, dirIdx, succeeded, failed, sent, handled>>
    /\ UNCHANGED <<resolveVars, mainVars, envVars>>

\* tokio::spawn(async move { while let Some(..) = rx.recv().await {..} })
SpawnProgressHandler ==
    /\ fnPc = "channel"
    /\ fnPc' = "spawned"
    /\ consumerPc' = "running"
    /\ UNCHANGED <<chanCreated, chan, senderAlive, pb,
                   prodPc, dirIdx, succeeded, failed, sent, handled>>
    /\ UNCHANGED <<resolveVars, mainVars, envVars>>

\* ctx.customize_folders_async(directories, &profile, tx) /
\* ctx.reset_folders_async(directories, tx) is entered; tx moves into it.
CallProducer ==
    /\ fnPc = "spawned"
    /\ fnPc' = "producing"
    /\ prodPc' = "start"
    /\ UNCHANGED <<chanCreated, chan, senderAlive, consumerPc, pb,
                   dirIdx, succeeded, failed, sent, handled>>
    /\ UNCHANGED <<resolveVars, mainVars, envVars>>

\* The awaited producer call returns; the sender it owned is dropped.
ProducerReturns ==
    /\ fnPc = "producing"
    /\ prodPc = "done"
    /\ fnPc' = "joining"
    /\ senderAlive' = FALSE
    /\ UNCHANGED <<chanCreated, chan, consumerPc, pb,
                   prodPc, dirIdx, succeeded, failed, sent, handled>>
    /\ UNCHANGED <<resolveVars, mainVars, envVars>>

\* progress_handle.await?
JoinProgressHandler ==
    /\ fnPc = "joining"
    /\ consumerPc = "finished"
    /\ fnPc' = "returned"
    /\ UNCHANGED <<chanCreated, chan, senderAlive, consumerPc, pb,
                   prodPc, dirIdx, succeeded, failed, sent, handled>>
    /\ UNCHANGED <<resolveVars, mainVars, envVars>>

(* --------------------------- progress handler ------------------------- *)
\* One iteration of the while-let loop: receive an event and handle it.
ConsumerRecv ==
    /\ consumerPc = "running"
    /\ chan # <<>>
    /\ LET ev == RecvNext(chan)
       IN  /\ handled' = Append(handled, ev)
           /\ chan' = Tail(chan)
           /\ pb' = IF mode = "customize" THEN HandleCustomize(pb, ev) ELSE HandleReset(pb, ev)
    /\ UNCHANGED <<fnPc, chanCreated, senderAlive, consumerPc,
                   prodPc, dirIdx, succeeded, failed, sent>>
    /\ UNCHANGED <<resolveVars, mainVars, envVars>>

\* recv() yields None: the loop and the task end.
ConsumerExit ==
    /\ consumerPc = "running"
    /\ RecvClosed(chan, senderAlive)
    /\ consumerPc' = "finished"
    /\ UNCHANGED <<fnPc, chanCreated, chan, senderAlive, pb,
                   prodPc, dirIdx, succeeded, failed, sent, handled>>
    /\ UNCHANGED <<resolveVars, mainVars, envVars>>

(* ------------------------------ producer ------------------------------ *)
\* tx.send(ev).await: suspends while the channel is full.
Send(ev) ==
    /\ CanSend(chan)
    /\ chan' = Append(chan, ev)
    /\ sent' = Append(sent, ev)

ProdStarted ==
    /\ prodPc = "start"
    /\ Send(Started(nDirs))
    /\ prodPc' = IF mode = "customize" THEN "rendering" ELSE "dirs"
    /\ UNCHANGED <<fnPc, chanCreated, senderAlive, consumerPc, pb,
                   dirIdx, succeeded, failed, handled>>
    /\ UNCHANGED <<resolveVars, mainVars, envVars>>

\* Rendering is announced, then the renderer runs once.
ProdRendering ==
    /\ prodPc = "rendering"
    /\ Send(Rendering)
    /\ prodPc' = IF renderOk THEN "dirs" ELSE "render_failed"
    /\ UNCHANGED <<fnPc, chanCreated, senderAlive, consumerPc, pb,
                   dirIdx, succeeded, failed, handled>>
    /\ UNCHANGED <<resolveVars, mainVars, envVars>>

\* A failed render ends the batch: no directory is attempted.
ProdRenderFailed ==
    /\ prodPc = "render_failed"
    /\ Send(RenderFailed)
    /\ prodPc' = "done"
    /\ UNCHANGED <<fnPc, chanCreated, senderAlive, consumerPc, pb,
                   dirIdx, succeeded, failed, handled>>
    /\ UNCHANGED <<resolveVars, mainVars, envVars>>

ProdProcessing ==
    /\ prodPc = "dirs"
    /\ dirIdx <= nDirs
    /\ Send(Processing(dirIdx))
    /\ prodPc' = "install"
    /\ UNCHANGED <<fnPc, chanCreated, senderAlive, consumerPc, pb,
                   dirIdx, succeeded, failed, handled>>
    /\ UNCHANGED <<resolveVars, mainVars, envVars>>

\* The installer ran for the directory; its outcome is reported and tallied.
ProdFolderDone ==
    /\ prodPc = "install"
    /\ IF dirIdx \in failing
       THEN /\ Send(FolderFailed(dirIdx))
            /\ failed' = failed + 1
            /\ UNCHANGED succeeded
       ELSE /\ Send(FolderComplete(dirIdx))
            /\ succeeded' = succeeded + 1
            /\ UNCHANGED failed
    /\ dirIdx' = dirIdx + 1
    /\ prodPc' = "dirs"
    /\ UNCHANGED <<fnPc, chanCreated, senderAlive, consumerPc, pb, handled>>
    /\ UNCHANGED <<resolveVars, mainVars, envVars>>

ProdCompleted ==
    /\ prodPc = "dirs"
    /\ dirIdx > nDirs
    /\ Send(Completed(succeeded, failed))
    /\ prodPc' = "done"
    /\ UNCHANGED <<fnPc, chanCreated, senderAlive, consumerPc, pb,
                   dirIdx, succeeded, failed, handled>>
    /\ UNCHANGED <<resolveVars, mainVars, envVars>>

FunctionStep ==
    \/ BuildContext
    \/ CreateChannel
    \/ SpawnProgressHandler
    \/ CallProducer
    \/ ProducerReturns
    \/ JoinProgressHandler

ConsumerStep == ConsumerRecv \/ ConsumerExit

ProducerStep ==
    \/ ProdStarted
    \/ ProdRendering
    \/ ProdRenderFailed
    \/ ProdProcessing
    \/ ProdFolderDone
    \/ ProdCompleted

(* ------------------------------- main --------------------------------- *)
None == <<>>
Some(v) == <<v>>

\* PositionArg, with the value names clap derives for it.
PositionNames == {"bottom-left", "bottom-right", "top-left", "top-right", "center"}

ParsePositionArg(name) ==
    CASE name = "bottom-left" -> "BottomLeft"
      [] name = "bottom-right" -> "BottomRight"
      [] name = "top-left" -> "TopLeft"
      [] name = "top-right" -> "TopRight"
      [] name = "center" -> "Center"

\* impl From<PositionArg> for SerializablePosition
PositionInto(pos) ==
    CASE pos = "BottomLeft" -> "BottomLeft"
      [] pos = "BottomRight" -> "BottomRight"
      [] pos = "TopLeft" -> "TopLeft"
      [] pos = "TopRight" -> "TopRight"
      [] pos = "Center" -> "Center"

\* Scales are f32 values, held here in hundredths.
DefaultDecalScale == 70
DefaultOverlayScale == 70
DefaultOverlayPosition == "center"

\* Cli::parse(): options that were not given take their default_value.
ClapParse(raw) ==
    [raw EXCEPT
        !.decal_scale = IF @ = None THEN DefaultDecalScale ELSE @[1],
        !.overlay_position =
            ParsePositionArg(IF @ = None THEN DefaultOverlayPosition ELSE @[1]),
        !.overlay_scale = IF @ = None THEN DefaultOverlayScale ELSE @[1]]

\* CustomizationProfile::new() and the with_* builders.
NewProfile == [hsl |-> None, decal |-> None, overlay |-> None]
with_hsl_mutation(p, m) == [p EXCEPT !.hsl = Some(m)]
with_decal(p, d) == [p EXCEPT !.decal = Some(d)]
with_overlay(p, o) == [p EXCEPT !.overlay = Some(o)]

DecalSettings(source, scale) == [source |-> source, scale |-> scale, enabled |-> TRUE]
OverlaySettings(source, position, scale) ==
    [source |-> source, position |-> position, scale |-> scale, enabled |-> TRUE]

Built(p) == [ok |-> TRUE, err |-> "none", profile |-> p]
Failed(e) == [ok |-> FALSE, err |-> e, profile |-> NewProfile]

\* CustomizationProfile::from_json(&json).context(..)
from_json(json) == IF json.valid THEN Built(json.value) ELSE Failed("json")

\* Mutation: a resolution error is dropped and the option is left unset.
BuildProfileIgnoringErrors(a, f) ==
    IF a.profile # None THEN
        LET r == from_json(a.profile[1]) IN IF r.ok THEN r ELSE Built(NewProfile)
    ELSE
        LET p0 == NewProfile
            p1 == IF a.color # None THEN with_hsl_mutation(p0, a.color[1]) ELSE p0
            d  == IF a.decal # None THEN resolve_svg_source(a.decal[1], f) ELSE NoResult
            p2 == IF d.ok THEN with_decal(p1, DecalSettings(from_svg(d.text), a.decal_scale))
                  ELSE p1
            o  == IF a.overlay # None THEN resolve_overlay_source(a.overlay[1], f) ELSE NoResult
            p3 == IF o.ok
                  THEN with_overlay(p2, OverlaySettings(o, PositionInto(a.overlay_position),
                                                        a.overlay_scale))
                  ELSE p2
        IN  Built(p3)

\* The Customize arm of main up to the call of customize_folders: the
\* profile from --profile, or from the individual options.
BuildProfile(a, f) ==
    IF a.profile # None THEN from_json(a.profile[1])
    ELSE
        LET p0 == NewProfile
            p1 == IF a.color # None THEN with_hsl_mutation(p0, a.color[1]) ELSE p0
            d  == IF a.decal # None THEN resolve_svg_source(a.decal[1], f) ELSE NoResult
            p2 == IF d.ok THEN with_decal(p1, DecalSettings(from_svg(d.text), a.decal_scale))
                  ELSE p1
            o  == IF a.overlay # None THEN resolve_overlay_source(a.overlay[1], f) ELSE NoResult
            p3 == IF o.ok
                  THEN with_overlay(p2, OverlaySettings(o, PositionInto(a.overlay_position),
                                                        a.overlay_scale))
                  ELSE p2
        IN  IF a.decal # None /\ ~d.ok THEN Failed("decal")
            ELSE IF a.overlay # None /\ ~o.ok THEN Failed("overlay")
            ELSE Built(p3)

IdleMain ==
    /\ args = [command |-> "Schema", profile |-> None, color |-> None, decal |-> None,
               decal_scale |-> None, overlay |-> None, overlay_position |-> None,
               overlay_scale |-> None]
    /\ mainPc = "start"
    /\ mainErr = "none"
    /\ profile = NewProfile
    /\ mode = "none"
    /\ nDirs = 1
    /\ ctxOk = TRUE
    /\ renderOk = TRUE
    /\ failing = {}

\* Commands::Customize: the profile is built and customize_folders is called.
MainCustomize ==
    /\ mainPc = "start"
    /\ args.command = "Customize"
    /\ LET r == BuildProfile(ClapParse(args), fs)
       IN  /\ r.ok
           /\ profile' = r.profile
    /\ mainPc' = "in_customize"
    /\ mode' = "customize"
    /\ fnPc' = "entry"
    /\ UNCHANGED <<args, mainErr, nDirs, ctxOk, renderOk, failing, resolveVars>>
    /\ UNCHANGED <<chanCreated, chan, senderAlive, consumerPc, pb,
                   prodPc, dirIdx, succeeded, failed, sent, handled>>

\* Commands::Customize: building the profile fails and `?` returns the error.
MainCustomizeFails ==
    /\ mainPc = "start"
    /\ args.command = "Customize"
    /\ LET r == BuildProfile(ClapParse(args), fs)
       IN  /\ ~r.ok
           /\ mainErr' = r.err
    /\ mainPc' = "failed"
    /\ UNCHANGED <<args, profile, resolveVars, envVars, batchVars>>

\* Commands::Reset
MainReset ==
    /\ mainPc = "start"
    /\ args.command = "Reset"
    /\ mainPc' = "in_reset"
    /\ mode' = "reset"
    /\ fnPc' = "entry"
    /\ UNCHANGED <<args, mainErr, profile, nDirs, ctxOk, renderOk, failing, resolveVars>>
    /\ UNCHANGED <<chanCreated, chan, senderAlive, consumerPc, pb,
                   prodPc, dirIdx, succeeded, failed, sent, handled>>

\* Commands::Schema
MainSchema ==
    /\ mainPc = "start"
    /\ args.command = "Schema"
    /\ mainPc' = "done"
    /\ UNCHANGED <<args, mainErr, profile, resolveVars, envVars, batchVars>>

\* customize_folders(..).await? / reset_folders(..).await? and Ok(())
MainReturns ==
    /\ mainPc \in {"in_customize", "in_reset"}
    /\ fnPc \in {"returned", "ctx_failed"}
    /\ mainPc' = IF fnPc = "returned" THEN "done" ELSE "failed"
    /\ mainErr' = IF fnPc = "returned" THEN "none" ELSE "context"
    /\ UNCHANGED <<args, profile, resolveVars, envVars, batchVars>>

(* --------------------------- main specification ----------------------- *)
ScaleArgs == {-50, 0, 70, 100, 150}

DecalArgs == {<<60, 97>>, <<97>>}
OverlayArgs == {<<60, 97>>, <<97, 46, 115, 118, 103>>, <<97>>, <<129414>>}
MainPaths == {<<97>>, <<97, 46, 115, 118, 103>>}
MainEntries == {Absent, Unreadable, File(<<60, 115, 118, 103, 47, 62>>)}

JsonArgs == {[valid |-> FALSE, value |-> NewProfile],
             [valid |-> TRUE, value |-> with_hsl_mutation(NewProfile, "Red")]}

OptionOf(S) == {None} \cup {Some(v) : v \in S}

\* Command lines clap accepts: Customize needs one of --profile, --color,
\* --decal, --overlay.  Options that main ignores are left out.
CommandLines ==
    {[command |-> "Reset", profile |-> None, color |-> None, decal |-> None,
      decal_scale |-> None, overlay |-> None, overlay_position |-> None,
      overlay_scale |-> None],
     [command |-> "Schema", profile |-> None, color |-> None, decal |-> None,
      decal_scale |-> None, overlay |-> None, overlay_position |-> None,
      overlay_scale |-> None]}
    \cup
    {a \in [command : {"Customize"}, profile : OptionOf(JsonArgs), color : OptionOf({"Red"}),
            decal : OptionOf(DecalArgs), decal_scale : OptionOf(ScaleArgs),
            overlay : OptionOf(OverlayArgs), overlay_position : OptionOf(PositionNames),
            overlay_scale : OptionOf(ScaleArgs)] :
        /\ (a.profile # None \/ a.color # None \/ a.decal # None \/ a.overlay # None)
        /\ a.profile # None =>
             (a.color = None /\ a.overlay = None /\ a.decal \in {None, Some(<<97>>)})
        /\ a.decal = None => a.decal_scale = None
        /\ a.overlay = None => (a.overlay_position = None /\ a.overlay_scale = None)}

PathsOf(a) ==
    {Trim(a.decal[i]) : i \in 1..Len(a.decal)}
        \cup {Trim(a.overlay[i]) : i \in 1..Len(a.overlay)}

MainInit ==
    /\ IdleBatch
    /\ input = <<>>
    /\ overlayResult = NoResult
    /\ decalResult = NoResult
    /\ args \in CommandLines
    /\ fs \in [PathsOf(args) \cap MainPaths -> MainEntries]
    /\ mainPc = "start"
    /\ mainErr = "none"
    /\ profile = NewProfile
    /\ mode = "none"
    /\ nDirs \in 1..MaxMainDirs
    /\ ctxOk \in BOOLEAN
    /\ renderOk \in BOOLEAN
    /\ failing \in SUBSET (1..nDirs)

MainStep == MainCustomize \/ MainCustomizeFails \/ MainReset \/ MainSchema \/ MainReturns

MainNext == MainStep \/ FunctionStep \/ ConsumerStep \/ ProducerStep

SpecMain == MainInit /\ [][MainNext]_vars

(* --------------------------- batch specification ---------------------- *)
\* Batch sizes: small batches, and one whose events outnumber the channel.
BatchSizes == {1, 2, 3, MaxDirs}

FailingSets(n) == {F \in SUBSET (1..n) : Cardinality(F) <= MaxFailing}

\* main has dispatched to customize_folders or reset_folders.
BatchInit ==
    /\ input = <<>>
    /\ overlayResult = NoResult
    /\ decalResult = NoResult
    /\ fs = <<>>
    /\ mode \in {"customize", "reset"}
    /\ args = [command |-> IF mode = "customize" THEN "Customize" ELSE "Reset",
               profile |-> None, color |-> IF mode = "customize" THEN Some("Red") ELSE None,
               decal |-> None, decal_scale |-> None, overlay |-> None,
               overlay_position |-> None, overlay_scale |-> None]
    /\ mainPc = IF mode = "customize" THEN "in_customize" ELSE "in_reset"
    /\ mainErr = "none"
    /\ profile = IF mode = "customize" THEN with_hsl_mutation(NewProfile, "Red") ELSE NewProfile
    /\ nDirs \in BatchSizes
    /\ ctxOk \in BOOLEAN
    /\ renderOk \in (IF mode = "customize" THEN BOOLEAN ELSE {TRUE})
    /\ failing \in FailingSets(nDirs)
    /\ fnPc = "entry"
    /\ chanCreated = FALSE
    /\ chan = <<>>
    /\ senderAlive = FALSE
    /\ consumerPc = "unspawned"
    /\ pb = NoBar
    /\ prodPc = "idle"
    /\ dirIdx = 1
    /\ succeeded = 0
    /\ failed = 0
    /\ sent = <<>>
    /\ handled = <<>>

BatchNext == FunctionStep \/ ConsumerStep \/ ProducerStep \/ MainReturns

SpecBatch == BatchInit /\ [][BatchNext]_vars

\* The runtime keeps running a task that can make progress.
SpecBatchFair ==
    /\ BatchInit
    /\ [][BatchNext]_vars
    /\ WF_vars(FunctionStep)
    /\ WF_vars(ConsumerStep)
    /\ WF_vars(ProducerStep)
    /\ WF_vars(MainReturns)

(* ----------------------- resolver specification ----------------------- *)
Alphabet == {32, 60, 46, 47, 97, 129414}

RECURSIVE StringsUpTo(_)
StringsUpTo(n) ==
    IF n = 0 THEN {<<>>}
    ELSE LET shorter == StringsUpTo(n - 1)
         IN  shorter \cup {Append(s, c) : s \in shorter, c \in Alphabet}

Suffixes == {<<>>, <<46, 115, 118, 103>>, <<46, 83, 86, 71>>, <<46, 115, 86, 103>>,
             <<46, 115, 118, 103, 122>>, <<115, 118, 103>>, <<46, 115, 118, 103, 10>>}

Inputs == {b \o x : b \in StringsUpTo(MaxLen), x \in Suffixes}

Contents == {<<60, 115, 118, 103, 47, 62>>, <<97>>}

FsEntries == {Absent, Unreadable} \cup {File(c) : c \in Contents}

\* File systems that say something about one path.  The empty path never
\* exists; a path without a file name or with a trailing separator can only
\* be a directory, which exists but cannot be read as text.
FileSystemsFor(p) ==
    IF p = <<>> THEN {<<>> :> Absent}
    ELSE IF FileName(p) = NoName \/ p[Len(p)] = 47 THEN {p :> e : e \in {Absent, Unreadable}}
    ELSE {p :> e : e \in FsEntries}

ResolveInit ==
    /\ IdleMain
    /\ IdleBatch
    /\ input \in Inputs
    /\ fs \in FileSystemsFor(Trim(input))
    /\ overlayResult = NoResult
    /\ decalResult = NoResult

ResolveOverlay ==
    /\ overlayResult = NoResult
    /\ overlayResult' = resolve_overlay_source(input, fs)
    /\ UNCHANGED <<input, fs, decalResult, mainVars, envVars, batchVars>>

ResolveDecal ==
    /\ decalResult = NoResult
    /\ decalResult' = DecalSource(input, fs)
    /\ UNCHANGED <<input, fs, overlayResult, mainVars, envVars, batchVars>>

ResolveNext == ResolveOverlay \/ ResolveDecal

SpecResolve == ResolveInit /\ [][ResolveNext]_vars

(* ------------------------- resolver properties ------------------------ *)
TrimmedInput == Trim(input)
InputEntry == Lookup(fs, TrimmedInput)

\* C1 as stated: the overlay resolver returns the first matching rule's
\* result, and an existing .svg path always yields Raw(file contents).
C1_AsStated ==
    overlayResult # NoResult =>
        overlayResult =
            IF StartsWithLt(TrimmedInput) THEN Ok("Raw", TrimmedInput)
            ELSE IF HasSvgExtension(TrimmedInput) /\ InputEntry.exists
                 THEN Ok("Raw", InputEntry.contents)
            ELSE IF looks_like_emoji(TrimmedInput) THEN Ok("EmojiChar", TrimmedInput)
            ELSE Ok("EmojiName", TrimmedInput)

\* C1 amended: the overlay resolver returns the first matching rule's result
\* in the order markup, svg-file, emoji-char, emoji-name, where the svg-file
\* rule yields Raw(file contents) when the read succeeds and a read error
\* when it fails; an input that is not markup and has no .svg extension is
\* never resolved to raw file contents, even when it names a readable file.
C1_FirstMatchingRule ==
    overlayResult # NoResult =>
        /\ overlayResult =
              IF StartsWithLt(TrimmedInput) THEN Ok("Raw", TrimmedInput)
              ELSE IF HasSvgExtension(TrimmedInput) /\ InputEntry.exists
                   THEN IF InputEntry.readable
                        THEN Ok("Raw", InputEntry.contents)
                        ELSE Err("ReadFailed")
              ELSE IF looks_like_emoji(TrimmedInput) THEN Ok("EmojiChar", TrimmedInput)
              ELSE Ok("EmojiName", TrimmedInput)
        /\ (~StartsWithLt(TrimmedInput) /\ ~HasSvgExtension(TrimmedInput))
              => (overlayResult.ok /\ overlayResult.tag \in {"EmojiChar", "EmojiName"}
                  /\ overlayResult.text = TrimmedInput)

\* A readable file without .svg extension was named and resolved as an emoji name.
C1_Witness ==
    /\ overlayResult.ok
    /\ overlayResult.tag = "EmojiName"
    /\ ~HasSvgExtension(TrimmedInput)
    /\ InputEntry.readable

\* C2 as stated: the decal resolver yields the markup, else the text of
\* any existing path, else a not-found/markup error.
C2_AsStated ==
    decalResult # NoResult =>
        decalResult =
            IF StartsWithLt(TrimmedInput) THEN Ok("Raw", TrimmedInput)
            ELSE IF InputEntry.exists THEN Ok("Raw", InputEntry.contents)
            ELSE Err("NotFoundOrMarkup")

\* C2 amended: the decal resolver yields only raw markup: the markup itself
\* when the trimmed input starts with '<', otherwise the text of the file
\* when the trimmed input is an existing path that can be read, a read error
\* when it exists but cannot be read, and a not-found/markup error otherwise;
\* it never yields an emoji asset and never succeeds for an input that is
\* neither markup nor an existing path.
C2_DecalOnlyRawMarkup ==
    decalResult # NoResult =>
        /\ decalResult =
              IF StartsWithLt(TrimmedInput) THEN Ok("Raw", TrimmedInput)
              ELSE IF InputEntry.exists
                   THEN IF InputEntry.readable
                        THEN Ok("Raw", InputEntry.contents)
                        ELSE Err("ReadFailed")
              ELSE Err("NotFoundOrMarkup")
        /\ decalResult.ok => decalResult.tag = "Raw"
        /\ decalResult.ok => (StartsWithLt(TrimmedInput) \/ InputEntry.exists)

\* The decal resolver failed on an input that the overlay resolver accepts
\* as an emoji character.
C2_Witness ==
    /\ decalResult = Err("NotFoundOrMarkup")
    /\ looks_like_emoji(TrimmedInput)
    /\ ~InputEntry.exists
(* --------------------------- main properties -------------------------- *)
\* The profile cannot be built: the JSON is malformed, or a source that was
\* given does not resolve.
ProfileInputFails ==
    /\ args.command = "Customize"
    /\ IF args.profile # None THEN ~args.profile[1].valid
       ELSE \/ args.decal # None /\ ~resolve_svg_source(args.decal[1], fs).ok
            \/ args.overlay # None /\ ~resolve_overlay_source(args.overlay[1], fs).ok

\* C3: when a source resolution or the profile deserialization fails, main
\* returns the error without calling customize_folders: no context is built,
\* no channel is created, no handler is spawned and no event is sent.
C3_ErrorsBeforeBatch ==
    ProfileInputFails =>
        /\ mainPc \in {"start", "failed"}
        /\ mainPc = "failed" => mainErr \in {"json", "decal", "overlay"}
        /\ fnPc = "idle"
        /\ ~chanCreated
        /\ consumerPc = "unspawned"
        /\ prodPc = "idle"
        /\ sent = <<>>

\* main returned the read error of an overlay .svg path.
C3_Witness ==
    /\ mainPc = "failed"
    /\ mainErr = "overlay"
    /\ args.decal # None
    /\ fnPc = "idle"

\* The scale of every setting of the profile handed to customize_folders.
ProfileScales ==
    {profile.decal[i].scale : i \in 1..Len(profile.decal)}
        \cup {profile.overlay[i].scale : i \in 1..Len(profile.overlay)}

\* C7: every DecalSettings and OverlaySettings of a profile that main builds
\* from the individual options and passes to customize_folders has its scale
\* in (0.0, 1.0].
C7_ScalesInRange ==
    (mainPc = "in_customize" /\ args.profile = None) =>
        \A x \in ProfileScales : x > 0 /\ x <= 100

\* C8: without --overlay-position the overlay is anchored BottomRight; with
\* it, at the variant that was named.
C8_DefaultPositionBottomRight ==
    (mainPc = "in_customize" /\ args.profile = None /\ args.overlay # None) =>
        profile.overlay[1].position =
            IF args.overlay_position = None THEN "BottomRight"
            ELSE ParsePositionArg(args.overlay_position[1])

(* --------------------------- batch properties ------------------------- *)
RECURSIVE CountKind(_, _)
CountKind(evs, kind) ==
    IF evs = <<>> THEN 0
    ELSE (IF Head(evs).kind = kind THEN 1 ELSE 0) + CountKind(Tail(evs), kind)

Kinds(evs) == [i \in 1..Len(evs) |-> evs[i].kind]

IsPrefix(a, b) == Len(a) <= Len(b) /\ a = SubSeq(b, 1, Len(a))

RenderFails == mode = "customize" /\ ~renderOk

\* C4: the handler handles every event sent, in the order sent, ends only
\* when the channel is closed and empty, and leaves no event unhandled when
\* the function returns.
C4_ConsumerDrainsChannel ==
    /\ handled \o chan = sent
    /\ consumerPc = "finished" => (chan = <<>> /\ ~senderAlive)
    /\ fnPc = "returned" => (consumerPc = "finished" /\ handled = sent)

\* A batch of more events than the channel holds was handled to the end.
C4_Witness ==
    /\ fnPc = "returned"
    /\ Len(handled) > Capacity
    /\ handled = sent

C6_RenderFailedSequence ==
    RenderFails =>
        /\ IsPrefix(Kinds(handled), <<"Started", "Rendering", "RenderFailed">>)
        /\ fnPc = "returned" => Kinds(handled) = <<"Started", "Rendering", "RenderFailed">>

\* A batch of several directories returned after a failed render.
C6_Witness ==
    /\ RenderFails
    /\ nDirs > 1
    /\ fnPc = "returned"
    /\ handled[Len(handled)].kind = "RenderFailed"

\* C9: the channel never holds more than 32 events, and while it holds 32
\* the producer sends nothing.
C9_ChannelBounded ==
    /\ [](Len(chan) <= Capacity)
    /\ [][Len(chan) = Capacity => sent' = sent]_vars

\* The channel is full and the producer has more to send.
C9_Witness ==
    /\ Len(chan) = Capacity
    /\ prodPc \in {"dirs", "install"}
    /\ consumerPc = "running"

ProducerSuspended == prodPc \notin {"idle", "done"} /\ ~CanSend(chan)

\* C10: under fair scheduling customize_folders and reset_folders return for
\* every batch size and every outcome; the producer is never suspended on a
\* full channel without a running handler, and the handler has ended by the
\* time the function returns.
C10_BatchReturns ==
    /\ [](ProducerSuspended => consumerPc = "running")
    /\ [](prodPc # "idle" => consumerPc # "unspawned")
    /\ <>(fnPc \in {"returned", "ctx_failed"})
    /\ <>(mainPc \in {"done", "failed"})

\* A batch of more events than the channel holds has returned to main.
C10_Witness ==
    /\ mainPc = "done"
    /\ fnPc = "returned"
    /\ Len(sent) > Capacity
    /\ failed > 0
====
